---- MODULE Spec2Model ----
(***************************************************************************)
(* Input capture and session attribution engine of ominime:                *)
(*   keyboard_listener.py  key-event callback, pinyin buffer, Rime log     *)
(*                         watcher                                         *)
(*   app_tracker.py        InputSession / AppTracker                       *)
(*   menu_bar.py, menu_bar_app.py, main.py   the three consumers           *)
(* The key-event callback, the log watcher and the main thread are Python  *)
(* threads; every lock-protected accessor is one step, and a thread can be *)
(* preempted between any two of them.                                      *)
(***************************************************************************)
EXTENDS Integers, Sequences, FiniteSets, TLC

VARIABLES
    pinyin_mode,        \* _pinyin_mode
    pinyin_buffer,      \* _pinyin_buffer
    pinyin_buffer_app,  \* _pinyin_buffer_app
    last_input_app,     \* _last_input_app_name / _last_input_app_bundle
    frontmost,          \* NSWorkspace.frontmostApplication(), the OS's truth
    current_app,        \* _current_app_name / _current_app_bundle (the cache)
    log,                \* content of ~/.ominime/rime_input.log
    mtime,              \* its st_mtime
    last_position,      \* RimeLogWatcher._last_position
    last_mtime,         \* RimeLogWatcher._last_mtime
    start_position,     \* history: the size of the log when _watch_loop began
    now,                \* datetime.now()
    running,            \* KeyboardListener._running (True after start())
    tap,                \* KeyboardListener._tap ("None" until the tap exists)
    start_result,       \* history: how the last call of start() ended
    app_watcher,        \* the thread of _start_app_watcher: "unstarted", "running"
    locks,              \* the owner of each threading.Lock, "free" when none
    consumer,           \* which callback KeyboardListener was built with
    pc,                 \* position of the key thread and of the watcher thread
    key,                \* locals of _event_callback
    rime,               \* locals of _watch_loop / _on_rime_input
    cpc,                \* position of each thread inside the consumer callback
    cev,                \* the KeyEvent the consumer callback was called with
    csess,              \* the consumer callback's local `session`
    sessions,           \* every InputSession created, by session_id
    current_session,    \* AppTracker._current_session (0 is None)
    completed_sessions, \* AppTracker._completed_sessions
    app_stats,          \* AppTracker._app_stats
    db,                 \* rows of input_records (the persistence sink)
    attempts,           \* history: one record per db.save_input_record call
    mpc,                \* position of the main thread
    delivered,          \* history: events passed to KeyboardListener.callback
    typed,              \* history: key-downs that reached the buffer logic
    arrivals,           \* history: one record per _on_rime_input call
    closes,             \* history: one record per _complete_session call
    nticks,             \* history: clock advances so far
    nswitch             \* history: foreground switches so far

vars == <<pinyin_mode, pinyin_buffer, pinyin_buffer_app, last_input_app,
          frontmost, current_app, log, mtime, last_position, last_mtime, start_position,
          now, running,
          tap, start_result, app_watcher, locks, consumer, pc, key, rime, cpc, cev, csess, sessions,
          current_session, completed_sessions, app_stats, db, attempts, mpc,
          delivered, typed, arrivals, closes, nticks, nswitch>>

listenerVars == <<pinyin_mode, pinyin_buffer, pinyin_buffer_app, last_input_app>>
logVars == <<log, mtime, last_position, last_mtime, start_position>>
trackerVars == <<sessions, current_session, completed_sessions, app_stats>>
consumerVars == <<cpc, cev, csess>>
dbVars == <<db, attempts>>
lifeVars == <<running, tap, start_result, app_watcher, locks>>
envVars == <<frontmost, current_app, now, nticks, nswitch>>

-----------------------------------------------------------------------------
(* Bounds of the model *)

MaxKeys == 3
MaxTrackerKeys == 2
MaxAppends == 1
MaxTicks == 1
MaxSwitch == 1
MaxFailures == 1
MaxSessionKeys == 3
MaxClockKeys == 2
MaxStopKeys == 1
MaxLockKeys == 2
MaxStatsKeys == 2
MaxWatcherAppends == 3

(* Program constants *)

session_timeout == 300
OmniMeAppThreshold == 50
MenuBarAppThreshold == 10

-----------------------------------------------------------------------------
(* Values *)

Threads == {"key", "rime"}
Apps == {"A", "B"}
Unknown == "Unknown"
Consumers == {"OmniMeApp", "OmniMeMenuBarApp", "cmd_monitor"}

BS == "\\b"
NL == "\\n"
SPACE == " "
TS == "[ts]"
ZH == "zh"
\* a character of a log line that has no timestamp marker
RAW == "raw"

Lowercase == {"a", "k"}
Digits19 == {"1"}
Whitespace == {SPACE, NL}

\* The key codes the model types, out of the tables of the source.
SPECIAL_KEYCODE_MAP == (36 :> NL) @@ (49 :> SPACE) @@ (51 :> BS) @@ (53 :> "esc")
IGNORED_KEYCODES == {54, 55, 56, 60, 58, 61, 59, 62, 57, 63}
KEYCODE_TO_CHAR == (0 :> "a") @@ (40 :> "k") @@ (18 :> "1") @@ (29 :> "0")

upper(c) == IF c = "a" THEN "A" ELSE IF c = "k" THEN "K" ELSE c

\* character of a key-down, "" when the key code has no mapping
MapKey(keycode, shift) ==
    IF keycode \in DOMAIN SPECIAL_KEYCODE_MAP THEN SPECIAL_KEYCODE_MAP[keycode]
    ELSE IF keycode \in DOMAIN KEYCODE_TO_CHAR
         THEN IF shift THEN upper(KEYCODE_TO_CHAR[keycode]) ELSE KEYCODE_TO_CHAR[keycode]
         ELSE ""

\* character.isalpha() and character.islower()
IsLowerAlpha(c) == c \in Lowercase

\* pid 0: the event carries no target process; pid 1, 2: a running app;
\* pid 3: the login window, an application of the ignored list
PidApp == (1 :> "A") @@ (2 :> "B") @@ (3 :> "com.apple.loginwindow")
Pids == {0, 2}

get_frontmost_app == frontmost

get_app_by_pid(pid) ==
    IF pid \in DOMAIN PidApp THEN PidApp[pid] ELSE get_frontmost_app

\* the key-downs the model types: key code, shift, cmd
KeyInputs ==
    { [keycode |-> 0,  shift |-> FALSE, cmd |-> FALSE],
      [keycode |-> 40, shift |-> TRUE,  cmd |-> FALSE],
      [keycode |-> 49, shift |-> FALSE, cmd |-> FALSE],
      [keycode |-> 18, shift |-> FALSE, cmd |-> FALSE],
      [keycode |-> 51, shift |-> FALSE, cmd |-> FALSE],
      [keycode |-> 56, shift |-> FALSE, cmd |-> FALSE] }

\* what the input method appends to the log in one write: one finalized
\* text, short or long
ShortChunk == <<TS, ZH, NL>>
LongChunk == <<TS>> \o [i \in 1..OmniMeAppThreshold |-> ZH] \o <<NL>>
\* an entry whose text is only a line break
BlankChunk == <<TS, NL>>
\* a line written without the timestamp marker
MalformedChunk == <<RAW, NL>>
\* a text one character short of the save threshold
AlmostChunk == <<TS>> \o [i \in 1..(OmniMeAppThreshold - 1) |-> ZH] \o <<NL>>

\* A character of text is kept with where it came from: the index of its
\* key-down in `typed`, or minus its offset in the log.
Ch(c, from) == [ch |-> c, from |-> from]
Text(chars) == [i \in 1..Len(chars) |-> chars[i].ch]
From(chars) == {chars[i].from : i \in 1..Len(chars)}

NoEvent == [character |-> <<>>, app |-> Unknown, is_ime_input |-> FALSE,
            keycode |-> -2, timestamp |-> 0]

KeyEvent(character, app, keycode, ime, timestamp) ==
    [character |-> character, app |-> app, is_ime_input |-> ime,
     keycode |-> keycode, timestamp |-> timestamp]

NoKey == [character |-> "", app |-> Unknown, keycode |-> -2]
\* locals of the watcher; keys, quiet, start, end are history: the key-downs
\* seen and the key thread at rest when the poll began, the log range read
NoRime == [app |-> Unknown, text |-> <<>>, timestamp |-> 0,
           keys |-> 0, quiet |-> FALSE, start |-> 0, end |-> 0]

-----------------------------------------------------------------------------
(* Text helpers *)

RECURSIVE Concat(_)
Concat(seqs) == IF seqs = <<>> THEN <<>> ELSE Head(seqs) \o Concat(Tail(seqs))

\* str.strip() taken for a test of emptiness that always succeeds
strip_to_nothing(text) == <<>>

\* str.strip(): the text between its first and last non-whitespace character
strip(text) ==
    LET solid == {i \in 1..Len(text) : text[i].ch \notin Whitespace}
    IN  IF solid = {} THEN <<>>
        ELSE SubSeq(text, CHOOSE i \in solid : \A j \in solid : i <= j,
                          CHOOSE i \in solid : \A j \in solid : i >= j)

IsTimestampMarker(c) == c.ch = TS

\* RimeLogWatcher._parse_content: re.sub removes the timestamp markers
_parse_content(content) == SelectSeq(content, LAMBDA c : ~IsTimestampMarker(c))

\* f.seek(position); f.read() with the seek lost: the log from its start on
ReadFrom_start(position) == [i \in 1..Len(log) |-> Ch(log[i], -i)]

\* f.seek(position); f.read(): the log from `position` on
ReadFrom(position) == [i \in 1..(Len(log) - position) |-> Ch(log[position + i], -(position + i))]

-----------------------------------------------------------------------------
(* keyboard_listener.py: the lock-protected accessors *)

set_last_input_app(app) == last_input_app' = app

get_last_input_app == last_input_app

\* `char` is the character of the key-down in progress, typed[Len(typed)]
add_to_pinyin_buffer(char, app) ==
    /\ pinyin_buffer' = Append(pinyin_buffer, Ch(char, Len(typed)))
    /\ pinyin_buffer_app' = app

\* clear_pinyin_buffer with the assignment `_pinyin_buffer = ""` lost
clear_pinyin_buffer_kept == UNCHANGED <<pinyin_buffer, pinyin_buffer_app>>

clear_pinyin_buffer ==
    /\ pinyin_buffer' = <<>>
    /\ UNCHANGED pinyin_buffer_app

\* flush_pinyin_buffer_as_english with the assignment `_pinyin_buffer = ""`
\* lost
flush_pinyin_buffer_as_english_kept == UNCHANGED <<pinyin_buffer, pinyin_buffer_app>>

\* returns (content, app) = (pinyin_buffer, pinyin_buffer_app)
flush_pinyin_buffer_as_english ==
    /\ pinyin_buffer' = <<>>
    /\ UNCHANGED pinyin_buffer_app

set_pinyin_mode(is_pinyin) == pinyin_mode' = is_pinyin

is_pinyin_mode == pinyin_mode

_on_app_activated(app) == current_app' = app

-----------------------------------------------------------------------------
(* keyboard_listener.py: the locks of the accessors.  Every accessor is   *)
(* one `with lock:` block: the lock is taken, the body runs, and the lock *)
(* is released before the accessor returns.                               *)

Locks == {"_app_lock", "_last_input_lock", "_pinyin_mode_lock", "_pinyin_buffer_lock"}

\* the locks a thread owns
HeldBy(t) == {l \in Locks : locks[l] = t}

\* a thread that goes on without leaving its `with` block
Ready_inside(t, need) == need \subseteq HeldBy(t)

\* thread t is at a statement that runs with exactly the locks `need`: the
\* `with` block of the accessor before it has been left
Ready(t, need) == HeldBy(t) = need

\* `with lock:` entered by thread t
Acquire(t, l) ==
    /\ Ready(t, {})
    /\ locks[l] = "free"
    /\ locks' = [locks EXCEPT ![l] = t]
    /\ UNCHANGED <<listenerVars, logVars, envVars, running, tap, start_result,
                   app_watcher, consumer, pc, key, rime, consumerVars, trackerVars,
                   dbVars, mpc, delivered, typed, arrivals, closes>>

\* the end of the `with` block
Release(t) ==
    /\ \E l \in HeldBy(t) : locks' = [locks EXCEPT ![l] = "free"]
    /\ UNCHANGED <<listenerVars, logVars, envVars, running, tap, start_result,
                   app_watcher, consumer, pc, key, rime, consumerVars, trackerVars,
                   dbVars, mpc, delivered, typed, arrivals, closes>>

-----------------------------------------------------------------------------
(* Calling KeyboardListener.callback, and coming back from it *)

\* self.callback(event) on thread t
Call(t, event, at) ==
    /\ pc' = [pc EXCEPT ![t] = at]
    /\ cpc' = [cpc EXCEPT ![t] = "enter"]
    /\ cev' = [cev EXCEPT ![t] = event]
    /\ delivered' = Append(delivered, event)
    /\ UNCHANGED csess

\* AfterCallback without the `except Exception: pass` of _event_callback:
\* an exception of the consumer leaves the handler
AfterCallback_uncaught(t, at, raised) ==
    IF t = "key" /\ raised THEN "propagated"
    ELSE IF t = "key" /\ at = "english_cb" THEN "set_pinyin_mode" ELSE "idle"

\* where thread t goes on when the callback returns or raises.
\* _event_callback: `except Exception: pass` ends the handler;
\* _watch_loop: `except Exception` sleeps and polls again.
AfterCallback(t, at, raised) ==
    IF t = "key" /\ at = "english_cb" /\ ~raised THEN "set_pinyin_mode" ELSE "idle"

Return(t, raised) ==
    /\ pc' = [pc EXCEPT ![t] = AfterCallback(t, pc[t], raised)]
    /\ cpc' = [cpc EXCEPT ![t] = "none"]
    /\ cev' = [cev EXCEPT ![t] = NoEvent]
    /\ csess' = [csess EXCEPT ![t] = 0]
    /\ IF t = "key" /\ AfterCallback(t, pc[t], raised) = "idle"
       THEN key' = NoKey /\ UNCHANGED rime
       ELSE IF t = "rime" THEN rime' = NoRime /\ UNCHANGED key
       ELSE UNCHANGED <<key, rime>>

-----------------------------------------------------------------------------
(* KeyboardListener._event_callback *)

SelectionKey(character) == character = SPACE \/ character \in Digits19

\* Dropped without the test of the Cmd flag
Dropped_cmd(input) ==
    \/ input.keycode \in IGNORED_KEYCODES
    \/ MapKey(input.keycode, input.shift) = ""

\* A key-down dropped before the buffer logic: modifier key code, Cmd held,
\* or no mapping.
Dropped(input) ==
    \/ input.keycode \in IGNORED_KEYCODES
    \/ input.cmd
    \/ MapKey(input.keycode, input.shift) = ""

TargetApp(pid) == IF pid > 0 THEN get_app_by_pid(pid) ELSE get_frontmost_app

KeyDown(input, pid) ==
    /\ running
    /\ pc["key"] = "idle"
    /\ LET character == MapKey(input.keycode, input.shift)
           app == TargetApp(pid)
           entry == [character |-> character, app |-> app,
                     dropped |-> Dropped(input), skipped |-> FALSE,
                     pending |-> pinyin_buffer, mode |-> pinyin_mode,
                     pid |-> pid, cache |-> current_app, input |-> input]
       IN  IF Dropped(input)
           THEN /\ typed' = Append(typed, entry)
                /\ UNCHANGED <<listenerVars, pc, key>>
           ELSE IF IsLowerAlpha(character)
           THEN /\ set_pinyin_mode(TRUE)
                /\ key' = [character |-> character, app |-> app, keycode |-> input.keycode]
                /\ pc' = [pc EXCEPT !["key"] = "set_last_input_app"]
                /\ typed' = Append(typed, entry)
                /\ UNCHANGED <<pinyin_buffer, pinyin_buffer_app, last_input_app>>
           ELSE IF SelectionKey(character) /\ is_pinyin_mode
           THEN /\ typed' = Append(typed, [entry EXCEPT !.skipped = TRUE])
                /\ UNCHANGED <<listenerVars, pc, key>>
           ELSE /\ key' = [character |-> character, app |-> app, keycode |-> input.keycode]
                /\ pc' = [pc EXCEPT !["key"] = "flush"]
                /\ typed' = Append(typed, entry)
                /\ UNCHANGED listenerVars
    /\ UNCHANGED <<logVars, envVars, lifeVars, consumer, rime, consumerVars,
                   trackerVars, dbVars, mpc, delivered, arrivals, closes>>

KeySetLastInputApp ==
    /\ pc["key"] = "set_last_input_app"
    /\ set_last_input_app(key.app)
    /\ pc' = [pc EXCEPT !["key"] = "add_to_pinyin_buffer"]
    /\ UNCHANGED <<pinyin_mode, pinyin_buffer, pinyin_buffer_app, logVars, envVars,
                   lifeVars, consumer, key, rime, consumerVars, trackerVars, dbVars, mpc,
                   delivered, typed, arrivals, closes>>

KeyAddToBuffer ==
    /\ pc["key"] = "add_to_pinyin_buffer"
    /\ add_to_pinyin_buffer(key.character, key.app)
    /\ pc' = [pc EXCEPT !["key"] = "idle"]
    /\ key' = NoKey
    /\ UNCHANGED <<pinyin_mode, last_input_app, logVars, envVars, lifeVars, consumer,
                   rime, consumerVars, trackerVars, dbVars, mpc, delivered, typed,
                   arrivals, closes>>

KeyFlush ==
    /\ pc["key"] = "flush"
    /\ flush_pinyin_buffer_as_english
    /\ IF pinyin_buffer # <<>>
       THEN Call("key", KeyEvent(pinyin_buffer, pinyin_buffer_app, -1, FALSE, now),
                 "english_cb")
       ELSE /\ pc' = [pc EXCEPT !["key"] = "set_pinyin_mode"]
            /\ UNCHANGED <<consumerVars, delivered>>
    /\ UNCHANGED <<pinyin_mode, last_input_app, logVars, envVars, lifeVars, consumer,
                   key, rime, trackerVars, dbVars, mpc, typed, arrivals, closes>>

KeySetPinyinModeFalse ==
    /\ pc["key"] = "set_pinyin_mode"
    /\ set_pinyin_mode(FALSE)
    /\ Call("key", KeyEvent(<<Ch(key.character, Len(typed))>>, key.app, key.keycode,
                            FALSE, now), "key_cb")
    /\ UNCHANGED <<pinyin_buffer, pinyin_buffer_app, last_input_app, logVars, envVars,
                   lifeVars, consumer, key, rime, trackerVars, dbVars, mpc, typed,
                   arrivals, closes>>

-----------------------------------------------------------------------------
(* RimeLogWatcher._watch_loop and KeyboardListener._on_rime_input *)

\* the input method finalizes a text and appends it to the log
Write(chunk) ==
    /\ log' = log \o chunk
    /\ mtime' = mtime + 1
    /\ UNCHANGED <<listenerVars, last_position, last_mtime, start_position, envVars,
                   lifeVars, consumer, pc, key, rime, consumerVars, trackerVars, dbVars,
                   mpc, delivered, typed, arrivals, closes>>

\* a text finalized between two key-downs
LogAppend(chunk) ==
    /\ mtime < MaxAppends
    /\ pc["key"] = "idle"
    /\ pc["rime"] \in {"idle", "read"}
    /\ Write(chunk)

\* one tick that sees a newer mtime: remembers it and picks the app
RimePoll ==
    /\ running
    /\ pc["rime"] = "idle"
    /\ mtime > last_mtime
    /\ last_mtime' = mtime
    /\ rime' = [app |-> IF get_last_input_app = Unknown THEN get_frontmost_app
                        ELSE get_last_input_app,
                text |-> <<>>, timestamp |-> 0,
                keys |-> Len(typed), quiet |-> pc["key"] = "idle",
                start |-> 0, end |-> 0]
    /\ pc' = [pc EXCEPT !["rime"] = "read"]
    /\ UNCHANGED <<listenerVars, log, mtime, last_position, start_position, envVars,
                   lifeVars, consumer, key, consumerVars, trackerVars, dbVars, mpc,
                   delivered, typed, arrivals, closes>>

\* open, seek or read raises: the `except Exception` of the loop sleeps,
\* `_last_position` is as before, `_last_mtime` is the value RimePoll set
RimeReadFails ==
    /\ pc["rime"] = "read"
    /\ pc' = [pc EXCEPT !["rime"] = "idle"]
    /\ rime' = NoRime
    /\ UNCHANGED <<listenerVars, logVars, envVars, lifeVars, consumer, key, consumerVars,
                   trackerVars, dbVars, mpc, delivered, typed, arrivals, closes>>

RimeRead ==
    /\ pc["rime"] = "read"
    /\ LET new_content == ReadFrom(last_position)
           text == _parse_content(new_content)
       IN  /\ last_position' = Len(log)
           /\ IF new_content # <<>> /\ text # <<>>
              THEN /\ rime' = [rime EXCEPT !.text = text, !.timestamp = now,
                                            !.start = last_position, !.end = Len(log)]
                   /\ pc' = [pc EXCEPT !["rime"] = "set_pinyin_mode"]
              ELSE /\ rime' = NoRime
                   /\ pc' = [pc EXCEPT !["rime"] = "idle"]
    /\ UNCHANGED <<listenerVars, log, mtime, last_mtime, start_position, envVars,
                   lifeVars, consumer, key, consumerVars, trackerVars, dbVars, mpc,
                   delivered, typed, arrivals, closes>>

RimeSetPinyinModeFalse ==
    /\ pc["rime"] = "set_pinyin_mode"
    /\ set_pinyin_mode(FALSE)
    /\ pc' = [pc EXCEPT !["rime"] = "clear_pinyin_buffer"]
    /\ UNCHANGED <<pinyin_buffer, pinyin_buffer_app, last_input_app, logVars, envVars,
                   lifeVars, consumer, key, rime, consumerVars, trackerVars, dbVars, mpc,
                   delivered, typed, arrivals, closes>>

RimeClearBuffer ==
    /\ pc["rime"] = "clear_pinyin_buffer"
    /\ clear_pinyin_buffer
    /\ LET text == strip(rime.text)
           arrival == [buffer |-> pinyin_buffer, buffer_app |-> pinyin_buffer_app,
                       current_app |-> current_app, frontmost |-> frontmost,
                       last_input_app |-> last_input_app,
                       quiet |-> rime.quiet /\ pc["key"] = "idle"
                                 /\ Len(typed) = rime.keys,
                       keys |-> Len(typed), start |-> rime.start, end |-> rime.end,
                       app |-> rime.app, text |-> text,
                       event |-> IF text = <<>> THEN 0 ELSE Len(delivered) + 1]
       IN  /\ arrivals' = Append(arrivals, arrival)
           /\ IF text = <<>>
              THEN /\ pc' = [pc EXCEPT !["rime"] = "idle"]
                   /\ rime' = NoRime
                   /\ UNCHANGED <<consumerVars, delivered>>
              ELSE /\ Call("rime", KeyEvent(text, rime.app, -1, TRUE, rime.timestamp),
                           "rime_cb")
                   /\ UNCHANGED rime
    /\ UNCHANGED <<pinyin_mode, last_input_app, logVars, envVars, lifeVars, consumer,
                   key, trackerVars, dbVars, mpc, typed, closes>>

-----------------------------------------------------------------------------
(* app_tracker.py and config.py *)

ignored_apps == {"com.apple.loginwindow", "com.apple.SecurityAgent"}

\* AppConfig.is_app_ignored with an empty ignored list
is_app_ignored_none(bundle_id) == FALSE

\* AppConfig.is_app_ignored
is_app_ignored(bundle_id) == bundle_id \in ignored_apps

\* InputSession.is_expired with `>=` for `>`
is_expired_at(session, timeout_seconds) == now - session.last_activity >= timeout_seconds

\* InputSession.is_expired with a session that never expires
is_expired_never(session, timeout_seconds) == FALSE

\* InputSession.is_expired
is_expired(session, timeout_seconds) == now - session.last_activity > timeout_seconds

IsBackspace(char) == Len(char) = 1 /\ char[1].ch = BS

\* InputSession.append without its backspace branch: every text is added
InputSession_append_all(session, char) ==
    [session EXCEPT
        !.buffer = @ \o char,
        !.char_count = @ + 1,
        !.last_activity = now,
        !.received = Append(@, [text |-> char, at |-> now])]

\* InputSession.append; `received` is history: the texts appended so far,
\* each with the time of its call
InputSession_append(session, char) ==
    IF IsBackspace(char)
    THEN [session EXCEPT
            !.buffer = IF @ # <<>> THEN SubSeq(@, 1, Len(@) - 1) ELSE @,
            !.last_activity = now,
            !.received = Append(@, [text |-> char, at |-> now])]
    ELSE [session EXCEPT
            !.buffer = @ \o char,
            !.char_count = @ + 1,
            !.last_activity = now,
            !.received = Append(@, [text |-> char, at |-> now])]

\* InputSession(session_id=uuid4(), ...) in get_or_create_session
NewSession(session_id, app) ==
    [session_id |-> session_id, app |-> app, start_time |-> now,
     last_activity |-> now, buffer |-> <<>>, char_count |-> 0, received |-> <<>>]

\* AppTracker._complete_session(session); session 0 is None.  The record
\* in `closes` keeps what was added to the aggregate of the app, and the
\* event whose arrival closed the session (NoEvent for a flush).
_complete_session(session, by) ==
    IF session = 0
    THEN UNCHANGED <<completed_sessions, app_stats, closes>>
    ELSE LET s == sessions[session]
         IN  /\ completed_sessions' = Append(completed_sessions, session)
             /\ app_stats' = [app_stats EXCEPT ![s.app] =
                    [present |-> TRUE,
                     total_chars |-> @.total_chars + s.char_count,
                     session_count |-> @.session_count + 1,
                     total_time_seconds |-> @.total_time_seconds
                                            + (s.last_activity - s.start_time)]]
             /\ closes' = Append(closes,
                    [session |-> session, by |-> by, buffer |-> s.buffer,
                     rows |-> Len(db), app |-> s.app, received |-> s.received,
                     total_chars |-> s.char_count,
                     total_time_seconds |-> s.last_activity - s.start_time,
                     event |-> IF by \in Threads THEN cev[by] ELSE NoEvent])

\* AppTracker.get_app_stats: with a session open, the app of the session
\* gets an entry in _app_stats when it has none; the map is returned
get_app_stats ==
    /\ app_stats' = IF current_session # 0
                    THEN [app_stats EXCEPT ![sessions[current_session].app].present = TRUE]
                    ELSE app_stats
    /\ UNCHANGED <<listenerVars, logVars, envVars, lifeVars, consumer, pc, key, rime,
                   consumerVars, sessions, current_session, completed_sessions, dbVars,
                   mpc, delivered, typed, arrivals, closes>>

\* InputRecord built by _save_session / cmd_monitor.on_key
InputRecord(session) ==
    [session_id |-> session.session_id, app |-> session.app,
     content |-> session.buffer, char_count |-> Len(session.buffer),
     timestamp |-> session.last_activity,
     duration_seconds |-> session.last_activity - session.start_time]

-----------------------------------------------------------------------------
(* The consumers: OmniMeApp._on_key_event (menu_bar.py),                   *)
(* OmniMeMenuBarApp._on_key_event (menu_bar_app.py), on_key (main.py)      *)

SpecialKeys == {"esc", "del"}

\* the event is one of the special keys the consumers ignore
IsSpecial(event) == Len(event.character) = 1 /\ event.character[1].ch \in SpecialKeys

\* menu_bar_app.py and main.py call record_input(..., is_ime_input=...), a
\* keyword AppTracker.record_input does not take: the call raises TypeError
RecordInputRaises(c) == c \in {"OmniMeMenuBarApp", "cmd_monitor"}

\* the buffer-size test that triggers a save, per consumer
should_save(c, session, char) ==
    IF c = "OmniMeApp"
    THEN Len(session.buffer) >= OmniMeAppThreshold
    ELSE /\ Len(session.buffer) >= MenuBarAppThreshold \/ Text(char) = <<NL>>
         /\ strip(session.buffer) # <<>>

\* entry of the callback up to the first read of tracker._current_session
\* in get_or_create_session
ConsumerEnter(t) ==
    /\ cpc[t] = "enter"
    /\ LET event == cev[t]
           cur == current_session
       IN  IF IsSpecial(event) \/ is_app_ignored(event.app)
           THEN Return(t, FALSE)
           ELSE IF RecordInputRaises(consumer)
           THEN Return(t, TRUE)
           ELSE /\ UNCHANGED <<pc, cev, key, rime>>
                /\ IF cur # 0
                   THEN IF sessions[cur].app = event.app
                           /\ ~is_expired(sessions[cur], session_timeout)
                        THEN /\ cpc' = [cpc EXCEPT ![t] = "append"]
                             /\ csess' = [csess EXCEPT ![t] = cur]
                        ELSE /\ cpc' = [cpc EXCEPT ![t] = "complete"]
                             /\ UNCHANGED csess
                   ELSE /\ cpc' = [cpc EXCEPT ![t] = "create"]
                        /\ UNCHANGED csess
    /\ UNCHANGED <<listenerVars, logVars, envVars, lifeVars, consumer, trackerVars,
                   dbVars, mpc, delivered, typed, arrivals, closes>>

\* self._complete_session(self._current_session) in get_or_create_session
ConsumerComplete(t) ==
    /\ cpc[t] = "complete"
    /\ _complete_session(current_session, t)
    /\ cpc' = [cpc EXCEPT ![t] = "create"]
    /\ UNCHANGED <<listenerVars, logVars, envVars, lifeVars, consumer, pc, key, rime,
                   cev, csess, sessions, current_session, dbVars, mpc, delivered, typed,
                   arrivals>>

\* the new InputSession becomes self._current_session
ConsumerCreate(t) ==
    /\ cpc[t] = "create"
    /\ LET session_id == Len(sessions) + 1
       IN  /\ sessions' = Append(sessions, NewSession(session_id, cev[t].app))
           /\ current_session' = session_id
           /\ csess' = [csess EXCEPT ![t] = session_id]
    /\ cpc' = [cpc EXCEPT ![t] = "append"]
    /\ UNCHANGED <<listenerVars, logVars, envVars, lifeVars, consumer, pc, key, rime,
                   cev, completed_sessions, app_stats, dbVars, mpc, delivered, typed,
                   arrivals, closes>>

\* session.append(char), then the consumer's buffer-size test
ConsumerAppend(t) ==
    /\ cpc[t] = "append"
    /\ LET session == InputSession_append(sessions[csess[t]], cev[t].character)
       IN  /\ sessions' = [sessions EXCEPT ![csess[t]] = session]
           /\ IF should_save(consumer, session, cev[t].character)
              THEN /\ cpc' = [cpc EXCEPT ![t] = "save"]
                   /\ UNCHANGED <<pc, cev, csess, key, rime>>
              ELSE Return(t, FALSE)
    /\ UNCHANGED <<listenerVars, logVars, envVars, lifeVars, consumer, current_session,
                   completed_sessions, app_stats, dbVars, mpc, delivered, typed,
                   arrivals, closes>>

\* db.save_input_record(record): the write succeeds, or raises
save_input_record(record, ok) ==
    /\ db' = IF ok THEN Append(db, record) ELSE db
    /\ attempts' = Append(attempts, [session |-> record.session_id,
                                     content |-> record.content, ok |-> ok])

\* the outcomes a write can have: it can fail while failures are left
Failures == Cardinality({i \in 1..Len(attempts) : ~attempts[i].ok})
WriteOutcomes == IF Failures < MaxFailures THEN BOOLEAN ELSE {TRUE}

\* _save_session(session): db.save_input_record unless the buffer is empty;
\* an exception of the write is caught and printed
_save_session(session) ==
    IF sessions[session].buffer = <<>>
    THEN UNCHANGED dbVars
    ELSE \E ok \in WriteOutcomes : save_input_record(InputRecord(sessions[session]), ok)

\* the write raised in on_key of cmd_monitor, which calls
\* db.save_input_record outside any try
SaveRaises(c) ==
    /\ c = "cmd_monitor"
    /\ Len(attempts') > Len(attempts)
    /\ ~attempts'[Len(attempts')].ok

\* the save at the size threshold; in cmd_monitor an exception of the write
\* leaves on_key before `session.buffer = ""`
ConsumerSave(t) ==
    /\ cpc[t] = "save"
    /\ _save_session(csess[t])
    /\ IF SaveRaises(consumer)
       THEN Return(t, TRUE)
       ELSE /\ cpc' = [cpc EXCEPT ![t] = "clear"]
            /\ UNCHANGED <<pc, key, rime, cev, csess>>
    /\ UNCHANGED <<listenerVars, logVars, envVars, lifeVars, consumer, trackerVars,
                   mpc, delivered, typed, arrivals, closes>>

\* session.buffer = ""
ConsumerClear(t) ==
    /\ cpc[t] = "clear"
    /\ sessions' = [sessions EXCEPT ![csess[t]].buffer = <<>>]
    /\ Return(t, FALSE)
    /\ UNCHANGED <<listenerVars, logVars, envVars, lifeVars, consumer, current_session,
                   completed_sessions, app_stats, dbVars, mpc, delivered, typed,
                   arrivals, closes>>

-----------------------------------------------------------------------------
(* The main thread: _stop_recording / _quit (menu bar apps), Ctrl+C in     *)
(* cmd_monitor                                                             *)

\* the menu bar apps flush, save, then stop the listener; cmd_monitor stops
\* the listener, then flushes
MainFirst(c) == IF c = "cmd_monitor" THEN "listener_stop" ELSE "flush_check"

AfterFlush(c) == IF c = "cmd_monitor" THEN "stopped" ELSE "save_check"

AfterListenerStop(c) == IF c = "cmd_monitor" THEN "flush_check" ELSE "stopped"

\* flush_current_session: `if self._current_session:`
FlushCheck ==
    /\ mpc = "flush_check" \/ (mpc = "run" /\ MainFirst(consumer) = "flush_check")
    /\ mpc' = IF current_session # 0 THEN "flush_complete" ELSE AfterFlush(consumer)
    /\ UNCHANGED <<listenerVars, logVars, envVars, lifeVars, consumer, pc, key, rime,
                   consumerVars, trackerVars, dbVars, delivered, typed, arrivals, closes>>

\* flush_current_session: self._complete_session(self._current_session)
FlushComplete ==
    /\ mpc = "flush_complete"
    /\ _complete_session(current_session, "main")
    /\ mpc' = "flush_clear"
    /\ UNCHANGED <<listenerVars, logVars, envVars, lifeVars, consumer, pc, key, rime,
                   consumerVars, sessions, current_session, dbVars, delivered, typed,
                   arrivals>>

\* flush_current_session with the assignment `_current_session = None` lost
FlushClear_kept ==
    /\ mpc = "flush_clear"
    /\ mpc' = AfterFlush(consumer)
    /\ UNCHANGED <<listenerVars, logVars, envVars, lifeVars, consumer, pc, key, rime,
                   consumerVars, trackerVars, dbVars, delivered, typed, arrivals, closes>>

\* flush_current_session: self._current_session = None
FlushClear ==
    /\ mpc = "flush_clear"
    /\ current_session' = 0
    /\ mpc' = AfterFlush(consumer)
    /\ UNCHANGED <<listenerVars, logVars, envVars, lifeVars, consumer, pc, key, rime,
                   consumerVars, sessions, completed_sessions, app_stats, dbVars,
                   delivered, typed, arrivals, closes>>

\* `if self.tracker._current_session: self._save_session(...)`
SaveCheck ==
    /\ mpc = "save_check"
    /\ IF current_session # 0 THEN _save_session(current_session) ELSE UNCHANGED dbVars
    /\ mpc' = "listener_stop"
    /\ UNCHANGED <<listenerVars, logVars, envVars, lifeVars, consumer, pc, key, rime,
                   consumerVars, trackerVars, delivered, typed, arrivals, closes>>

\* KeyboardListener.stop(): _running = False, the tap is disabled, the
\* watcher loop ends at its next test; both joins are bounded by a timeout
ListenerStop ==
    /\ mpc = "listener_stop" \/ (mpc = "run" /\ MainFirst(consumer) = "listener_stop")
    /\ running' = FALSE
    /\ mpc' = AfterListenerStop(consumer)
    /\ UNCHANGED <<tap, start_result, app_watcher, locks>>
    /\ UNCHANGED <<listenerVars, logVars, envVars, consumer, pc, key, rime,
                   consumerVars, trackerVars, dbVars, delivered, typed, arrivals, closes>>

-----------------------------------------------------------------------------
(* Starting the listener: _start_recording (menu bar apps), cmd_monitor,   *)
(* KeyboardListener.start and _run_loop_thread                             *)

\* where a thread is when it runs nothing of the listener: not started,
\* waiting for its next trigger, or returned from _run_loop_thread
RestPositions == {"unstarted", "idle", "returned"}

AtRest == \A t \in Threads : pc[t] \in RestPositions

\* KeyboardListener(callback).start(): a new listener, so `_running` is
\* False and its `_tap` None; start() sets `_running`, starts the run-loop
\* thread and the watcher, whose loop begins at the end of the log, and
\* returns None.  A menu bar app starts a listener again after a stop.
Start ==
    /\ mpc = "created" \/ (mpc = "stopped" /\ consumer # "cmd_monitor")
    /\ AtRest
    /\ running' = TRUE
    /\ tap' = "None"
    /\ start_result' = "returned"
    /\ app_watcher' = "running"
    /\ pc' = [pc EXCEPT !["key"] = "create", !["rime"] = "idle"]
    /\ last_position' = Len(log)
    /\ last_mtime' = mtime
    /\ start_position' = Len(log)
    /\ mpc' = "run"
    /\ UNCHANGED <<listenerVars, log, mtime, envVars, locks, consumer, key, rime,
                   consumerVars, trackerVars, dbVars, delivered, typed, arrivals, closes>>

\* _run_loop_thread: CGEventTapCreate gives a tap, or None when the OS
\* refuses it; on None the thread prints and returns
TapCreate(granted) ==
    /\ pc["key"] = "create"
    /\ tap' = IF granted THEN "tap" ELSE "None"
    /\ pc' = [pc EXCEPT !["key"] = IF granted THEN "idle" ELSE "returned"]
    /\ UNCHANGED <<listenerVars, logVars, envVars, running, start_result, app_watcher,
                   locks, consumer, key, rime, consumerVars, trackerVars, dbVars, mpc, delivered,
                   typed, arrivals, closes>>

\* _run_loop_thread after stop(): CFRunLoopStop makes CFRunLoopRun return
\* and the thread ends
RunLoopExit ==
    /\ ~running
    /\ pc["key"] = "idle"
    /\ pc' = [pc EXCEPT !["key"] = "returned"]
    /\ UNCHANGED <<listenerVars, logVars, envVars, lifeVars, consumer, key, rime,
                   consumerVars, trackerVars, dbVars, mpc, delivered, typed, arrivals,
                   closes>>

\* _watch_loop after stop(): `while self._running` fails and the thread ends
WatchLoopExit ==
    /\ ~running
    /\ pc["rime"] = "idle"
    /\ pc' = [pc EXCEPT !["rime"] = "returned"]
    /\ UNCHANGED <<listenerVars, logVars, envVars, lifeVars, consumer, key, rime,
                   consumerVars, trackerVars, dbVars, mpc, delivered, typed, arrivals,
                   closes>>

\* KeyboardListener.is_running
is_running == running

-----------------------------------------------------------------------------
(* The environment: the clock and the foreground application.  A handler  *)
(* runs in far less than a second and than the time a user needs to       *)
(* switch applications, so the gaps of the session timeout (Tick) and the *)
(* switches happen between handlers; a gap matters through                *)
(* InputSession.is_expired only and happens while a session is open.      *)
(* datetime.now() has a resolution far below a handler's run time: the    *)
(* clock can step (Elapse) between any two steps of the threads.          *)

Quiescent == \A t \in Threads : pc[t] = "idle"

TickSteps == {session_timeout, session_timeout + 1}

Tick(d) ==
    /\ nticks < MaxTicks
    /\ Quiescent
    /\ current_session # 0
    /\ now' = now + d
    /\ nticks' = nticks + 1
    /\ UNCHANGED <<listenerVars, logVars, frontmost, current_app, nswitch, lifeVars,
                   consumer, pc, key, rime, consumerVars, trackerVars, dbVars, mpc,
                   delivered, typed, arrivals, closes>>

\* the clock steps by its resolution
Elapse ==
    /\ nticks < MaxTicks
    /\ now' = now + 1
    /\ nticks' = nticks + 1
    /\ UNCHANGED <<listenerVars, logVars, frontmost, current_app, nswitch, lifeVars,
                   consumer, pc, key, rime, consumerVars, trackerVars, dbVars, mpc,
                   delivered, typed, arrivals, closes>>

\* the user brings another application to the front
Activate(app) ==
    /\ nswitch < MaxSwitch
    /\ Quiescent
    /\ app # frontmost
    /\ frontmost' = app
    /\ nswitch' = nswitch + 1
    /\ UNCHANGED <<listenerVars, logVars, current_app, now, nticks, lifeVars, consumer,
                   pc, key, rime, consumerVars, trackerVars, dbVars, mpc, delivered,
                   typed, arrivals, closes>>

\* AppWatcher.applicationActivated_: the notification reaches the cache
ApplicationActivated ==
    /\ app_watcher = "running"
    /\ current_app # frontmost
    /\ Quiescent
    /\ _on_app_activated(frontmost)
    /\ UNCHANGED <<listenerVars, logVars, frontmost, now, nticks, nswitch, lifeVars,
                   consumer, pc, key, rime, consumerVars, trackerVars, dbVars, mpc,
                   delivered, typed, arrivals, closes>>

-----------------------------------------------------------------------------

\* the aggregate of an app: `present` tells whether _app_stats has an entry
\* for the app
NoStats == [present |-> FALSE, total_chars |-> 0, session_count |-> 0,
            total_time_seconds |-> 0]

\* the state every run begins with: nothing typed, no session
Constructed ==
    /\ pinyin_mode = FALSE
    /\ pinyin_buffer = <<>>
    /\ pinyin_buffer_app = Unknown
    /\ last_input_app = Unknown
    /\ frontmost = "A"
    /\ current_app = frontmost
    /\ log = <<>>
    /\ mtime = 0
    /\ last_position = 0
    /\ last_mtime = 0
    /\ start_position = 0
    /\ locks = [l \in Locks |-> "free"]
    /\ now = 0
    /\ consumer \in Consumers
    /\ key = NoKey
    /\ rime = NoRime
    /\ cpc = [t \in Threads |-> "none"]
    /\ cev = [t \in Threads |-> NoEvent]
    /\ csess = [t \in Threads |-> 0]
    /\ sessions = <<>>
    /\ current_session = 0
    /\ completed_sessions = <<>>
    /\ app_stats = [a \in Apps \cup {Unknown} |-> NoStats]
    /\ db = <<>>
    /\ attempts = <<>>
    /\ delivered = <<>>
    /\ typed = <<>>
    /\ arrivals = <<>>
    /\ closes = <<>>
    /\ nticks = 0
    /\ nswitch = 0

\* the listener started and its tap installed
Init ==
    /\ Constructed
    /\ running = TRUE
    /\ tap = "tap"
    /\ start_result = "returned"
    /\ app_watcher = "running"
    /\ pc = [t \in Threads |-> "idle"]
    /\ mpc = "run"

\* the consumer built, its listener not yet started
InitStart ==
    /\ Constructed
    /\ running = FALSE
    /\ tap = "None"
    /\ start_result = "none"
    /\ app_watcher = "unstarted"
    /\ pc = [t \in Threads |-> "unstarted"]
    /\ mpc = "created"

\* a consumer callback is running on no thread
NoCallback == \A t \in Threads : cpc[t] = "none"

(* The listener: the key-event callback and the log watcher interleave at *)
(* every accessor of the shared composition state.  A consumer callback   *)
(* touches only the tracker and its own thread's locals, so its steps     *)
(* commute with the other thread's listener steps: it is run to its end   *)
(* before the next listener step.  The input method writes short texts.   *)
Next ==
    \/ \E t \in Threads : ConsumerEnter(t)
    \/ \E t \in Threads : ConsumerComplete(t)
    \/ \E t \in Threads : ConsumerCreate(t)
    \/ \E t \in Threads : ConsumerAppend(t)
    \/ \E input \in KeyInputs, pid \in Pids :
          NoCallback /\ Len(typed) < MaxKeys /\ KeyDown(input, pid)
    \/ NoCallback /\ KeySetLastInputApp
    \/ NoCallback /\ KeyAddToBuffer
    \/ NoCallback /\ KeyFlush
    \/ NoCallback /\ KeySetPinyinModeFalse
    \/ NoCallback /\ LogAppend(ShortChunk)
    \/ NoCallback /\ RimePoll
    \/ NoCallback /\ RimeRead
    \/ NoCallback /\ RimeSetPinyinModeFalse
    \/ NoCallback /\ RimeClearBuffer

Spec == Init /\ [][Next]_vars

(* The tracker: the two threads that call record_input and the main       *)
(* thread that calls flush_current_session interleave at every access to  *)
(* the tracker; the clock moves between handlers.  The listener's own     *)
(* steps touch no tracker state: a thread runs them, from the key-down or *)
(* the poll to the call of the consumer, without the others moving.  The  *)
(* input method writes texts as long as the save threshold.               *)
TrackerInputs ==
    { [keycode |-> 0,  shift |-> FALSE, cmd |-> FALSE],
      [keycode |-> 40, shift |-> TRUE,  cmd |-> FALSE] }

\* thread t is between its trigger and its call of the consumer
InListener(t) == pc[t] # "idle" /\ cpc[t] = "none"

\* no thread other than t is inside the listener
Alone(t) == \A u \in Threads \ {t} : ~InListener(u)

NextTracker ==
    \/ \E t \in Threads : Alone(t) /\ ConsumerEnter(t)
    \/ \E t \in Threads : Alone(t) /\ ConsumerComplete(t)
    \/ \E t \in Threads : Alone(t) /\ ConsumerCreate(t)
    \/ \E t \in Threads : Alone(t) /\ ConsumerAppend(t)
    \/ \E t \in Threads : Alone(t) /\ ConsumerSave(t)
    \/ \E t \in Threads : Alone(t) /\ ConsumerClear(t)
    \/ \E input \in TrackerInputs, pid \in Pids :
          Alone("key") /\ Len(typed) < MaxTrackerKeys /\ KeyDown(input, pid)
    \/ Alone("key") /\ KeySetLastInputApp
    \/ Alone("key") /\ KeyAddToBuffer
    \/ Alone("key") /\ KeyFlush
    \/ Alone("key") /\ KeySetPinyinModeFalse
    \/ Alone("rime") /\ LogAppend(LongChunk)
    \/ Alone("rime") /\ RimePoll
    \/ Alone("rime") /\ RimeRead
    \/ Alone("rime") /\ RimeSetPinyinModeFalse
    \/ Alone("rime") /\ RimeClearBuffer
    \/ Alone("main") /\ FlushCheck
    \/ Alone("main") /\ FlushComplete
    \/ Alone("main") /\ FlushClear
    \/ Alone("main") /\ SaveCheck
    \/ Alone("main") /\ ListenerStop
    \/ \E d \in TickSteps : Tick(d)

SpecTracker == Init /\ [][NextTracker]_vars

(* The timestamps of the delivered events: the listener of Next with the  *)
(* clock stepping at any point, and fewer key-downs.                      *)
ClockInputs ==
    { [keycode |-> 0,  shift |-> FALSE, cmd |-> FALSE],
      [keycode |-> 40, shift |-> TRUE,  cmd |-> FALSE],
      [keycode |-> 51, shift |-> FALSE, cmd |-> FALSE],
      [keycode |-> 56, shift |-> FALSE, cmd |-> FALSE],
      [keycode |-> 0,  shift |-> FALSE, cmd |-> TRUE],
      [keycode |-> 10, shift |-> FALSE, cmd |-> FALSE] }

\* the target processes of the key-downs: none, app B, the login window
ClockPids == {0, 2, 3}

NextClock ==
    \/ \E t \in Threads : ConsumerEnter(t)
    \/ \E t \in Threads : ConsumerComplete(t)
    \/ \E t \in Threads : ConsumerCreate(t)
    \/ \E t \in Threads : ConsumerAppend(t)
    \/ \E input \in ClockInputs, pid \in ClockPids :
          NoCallback /\ Len(typed) < MaxClockKeys /\ KeyDown(input, pid)
    \/ NoCallback /\ KeySetLastInputApp
    \/ NoCallback /\ KeyAddToBuffer
    \/ NoCallback /\ KeyFlush
    \/ NoCallback /\ KeySetPinyinModeFalse
    \/ NoCallback /\ LogAppend(ShortChunk)
    \/ NoCallback /\ LogAppend(BlankChunk)
    \/ NoCallback /\ RimePoll
    \/ NoCallback /\ RimeRead
    \/ NoCallback /\ RimeSetPinyinModeFalse
    \/ NoCallback /\ RimeClearBuffer
    \/ NoCallback /\ Elapse

SpecClock == Init /\ [][NextClock]_vars

(* The locks: the key thread, the watcher thread and the app watcher at   *)
(* the grain of the `with` blocks of the accessors.  A statement runs     *)
(* when the thread owns exactly the locks of the block it is in.          *)
LockInputs ==
    { [keycode |-> 0,  shift |-> FALSE, cmd |-> FALSE],
      [keycode |-> 40, shift |-> TRUE,  cmd |-> FALSE] }

\* the accessor _event_callback calls first for a key: set_pinyin_mode for
\* a lowercase letter, is_pinyin_mode for a selection key
KeyDownLocks(input) ==
    LET character == MapKey(input.keycode, input.shift)
    IN  IF IsLowerAlpha(character) \/ SelectionKey(character)
        THEN {"_pinyin_mode_lock"} ELSE {}

\* the lock of the accessor that thread t calls next, at its position
LockAt(t) ==
    IF t = "key"
    THEN CASE pc[t] = "idle" -> IF running /\ Len(typed) < MaxLockKeys
                                THEN {"_pinyin_mode_lock"} ELSE {}
           [] pc[t] = "set_last_input_app" -> {"_last_input_lock"}
           [] pc[t] = "add_to_pinyin_buffer" -> {"_pinyin_buffer_lock"}
           [] pc[t] = "flush" -> {"_pinyin_buffer_lock"}
           [] pc[t] = "set_pinyin_mode" -> {"_pinyin_mode_lock"}
           [] OTHER -> {}
    ELSE CASE pc[t] = "idle" -> IF running /\ mtime > last_mtime
                                THEN {"_last_input_lock"} ELSE {}
           [] pc[t] = "set_pinyin_mode" -> {"_pinyin_mode_lock"}
           [] pc[t] = "clear_pinyin_buffer" -> {"_pinyin_buffer_lock"}
           [] OTHER -> {}

NextLocks ==
    \/ \E t \in Threads : \E l \in LockAt(t) : NoCallback /\ Acquire(t, l)
    \/ \E t \in Threads : Release(t)
    \/ current_app # frontmost /\ Acquire("app_watcher", "_app_lock")
    \/ Ready("app_watcher", {"_app_lock"}) /\ ApplicationActivated
    \/ Release("app_watcher")
    \/ \E app \in Apps : Activate(app)
    \/ \E t \in Threads : Ready(t, {}) /\ ConsumerEnter(t)
    \/ \E t \in Threads : Ready(t, {}) /\ ConsumerComplete(t)
    \/ \E t \in Threads : Ready(t, {}) /\ ConsumerCreate(t)
    \/ \E t \in Threads : Ready(t, {}) /\ ConsumerAppend(t)
    \/ \E t \in Threads : Ready(t, {}) /\ ConsumerSave(t)
    \/ \E t \in Threads : Ready(t, {}) /\ ConsumerClear(t)
    \/ \E input \in LockInputs, pid \in Pids :
          /\ NoCallback /\ Len(typed) < MaxLockKeys
          /\ Ready("key", KeyDownLocks(input)) /\ KeyDown(input, pid)
    \/ NoCallback /\ Ready("key", {"_last_input_lock"}) /\ KeySetLastInputApp
    \/ NoCallback /\ Ready("key", {"_pinyin_buffer_lock"}) /\ KeyAddToBuffer
    \/ NoCallback /\ Ready("key", {"_pinyin_buffer_lock"}) /\ KeyFlush
    \/ NoCallback /\ Ready("key", {"_pinyin_mode_lock"}) /\ KeySetPinyinModeFalse
    \/ NoCallback /\ LogAppend(LongChunk)
    \/ NoCallback /\ Ready("rime", {"_last_input_lock"}) /\ RimePoll
    \/ NoCallback /\ Ready("rime", {}) /\ RimeRead
    \/ NoCallback /\ Ready("rime", {"_pinyin_mode_lock"}) /\ RimeSetPinyinModeFalse
    \/ NoCallback /\ Ready("rime", {"_pinyin_buffer_lock"}) /\ RimeClearBuffer

SpecLocks == Init /\ [][NextLocks]_vars

(* The aggregates: key-downs handled one at a time, and a reader of the    *)
(* tracker that calls get_app_stats between two of them.                   *)
StatsInputs ==
    { [keycode |-> 40, shift |-> TRUE,  cmd |-> FALSE],
      [keycode |-> 18, shift |-> FALSE, cmd |-> FALSE] }

NextStats ==
    \/ \E t \in Threads : ConsumerEnter(t)
    \/ \E t \in Threads : ConsumerComplete(t)
    \/ \E t \in Threads : ConsumerCreate(t)
    \/ \E t \in Threads : ConsumerAppend(t)
    \/ \E input \in StatsInputs, pid \in Pids :
          NoCallback /\ Len(typed) < MaxStatsKeys /\ KeyDown(input, pid)
    \/ NoCallback /\ KeyFlush
    \/ NoCallback /\ KeySetPinyinModeFalse
    \/ Quiescent /\ get_app_stats

SpecStats == Init /\ [][NextStats]_vars

(* The log watcher: the input method writes before and after the listener *)
(* starts, at any point of the watcher's loop, and a read of the log may  *)
(* fail.                                                                   *)
NextWatcher ==
    \/ mpc = "created" /\ Start
    \/ \E granted \in BOOLEAN : TapCreate(granted)
    \/ mtime < MaxWatcherAppends /\ Write(ShortChunk)
    \/ mtime < MaxWatcherAppends /\ Write(MalformedChunk)
    \/ RimePoll
    \/ RimeRead
    \/ RimeReadFails
    \/ RimeSetPinyinModeFalse
    \/ RimeClearBuffer
    \/ \E t \in Threads : ConsumerEnter(t)
    \/ \E t \in Threads : ConsumerCreate(t)
    \/ \E t \in Threads : ConsumerAppend(t)

SpecWatcher == InitStart /\ [][NextWatcher]_vars

(* Stopping: one run of a listener from start() to stop(), one handler at *)
(* a time, with the app watcher.  After stop() the run loop is stopped and *)
(* the watcher loop tests `_running` at its next turn: both exits are      *)
(* taken when they stay possible.                                          *)
StopInputs ==
    { [keycode |-> 0,  shift |-> FALSE, cmd |-> FALSE],
      [keycode |-> 40, shift |-> TRUE,  cmd |-> FALSE] }

\* thread t may move in a run that is stopped once
StopTurn(t) == mpc = "run" /\ \A u \in Threads \ {t} : pc[u] \in RestPositions

NextStop ==
    \/ mpc = "created" /\ Start
    \/ \E granted \in BOOLEAN : TapCreate(granted)
    \/ \E t \in Threads : StopTurn(t) /\ ConsumerEnter(t)
    \/ \E t \in Threads : StopTurn(t) /\ ConsumerCreate(t)
    \/ \E t \in Threads : StopTurn(t) /\ ConsumerAppend(t)
    \/ \E input \in StopInputs, pid \in Pids :
          StopTurn("key") /\ Len(typed) < MaxStopKeys /\ KeyDown(input, pid)
    \/ StopTurn("key") /\ KeySetLastInputApp
    \/ StopTurn("key") /\ KeyAddToBuffer
    \/ StopTurn("key") /\ KeyFlush
    \/ StopTurn("key") /\ KeySetPinyinModeFalse
    \/ StopTurn("rime") /\ LogAppend(ShortChunk)
    \/ StopTurn("rime") /\ RimePoll
    \/ StopTurn("rime") /\ RimeRead
    \/ StopTurn("rime") /\ RimeSetPinyinModeFalse
    \/ StopTurn("rime") /\ RimeClearBuffer
    \/ \E app \in Apps : Activate(app)
    \/ ApplicationActivated
    \/ AtRest /\ FlushCheck
    \/ AtRest /\ FlushComplete
    \/ AtRest /\ FlushClear
    \/ AtRest /\ SaveCheck
    \/ AtRest /\ ListenerStop
    \/ RunLoopExit
    \/ WatchLoopExit

SpecStop ==
    /\ InitStart
    /\ [][NextStop]_vars
    /\ WF_vars(RunLoopExit)
    /\ WF_vars(WatchLoopExit)

(* One handler at a time: a key-down, a poll of the log or a main-thread   *)
(* operation begins when every thread is at rest and runs to its end; the  *)
(* clock moves between handlers.  The run begins before start().           *)
SessionInputs ==
    { [keycode |-> 0,  shift |-> FALSE, cmd |-> FALSE],
      [keycode |-> 40, shift |-> TRUE,  cmd |-> FALSE] }

\* thread t may move: the main thread is in its loop and the other thread
\* is at rest
Turn(t) == mpc = "run" /\ \A u \in Threads \ {t} : pc[u] \in RestPositions

NextSession ==
    \/ Start
    \/ \E granted \in BOOLEAN : TapCreate(granted)
    \/ \E t \in Threads : Turn(t) /\ ConsumerEnter(t)
    \/ \E t \in Threads : Turn(t) /\ ConsumerComplete(t)
    \/ \E t \in Threads : Turn(t) /\ ConsumerCreate(t)
    \/ \E t \in Threads : Turn(t) /\ ConsumerAppend(t)
    \/ \E t \in Threads : Turn(t) /\ ConsumerSave(t)
    \/ \E t \in Threads : Turn(t) /\ ConsumerClear(t)
    \/ \E input \in SessionInputs, pid \in Pids :
          Turn("key") /\ Len(typed) < MaxSessionKeys /\ KeyDown(input, pid)
    \/ Turn("key") /\ KeySetLastInputApp
    \/ Turn("key") /\ KeyAddToBuffer
    \/ Turn("key") /\ KeyFlush
    \/ Turn("key") /\ KeySetPinyinModeFalse
    \/ Turn("rime") /\ LogAppend(LongChunk)
    \/ Turn("rime") /\ LogAppend(AlmostChunk)
    \/ Turn("rime") /\ RimePoll
    \/ Turn("rime") /\ RimeRead
    \/ Turn("rime") /\ RimeSetPinyinModeFalse
    \/ Turn("rime") /\ RimeClearBuffer
    \/ AtRest /\ FlushCheck
    \/ AtRest /\ FlushComplete
    \/ AtRest /\ FlushClear
    \/ AtRest /\ SaveCheck
    \/ AtRest /\ ListenerStop
    \/ \E d \in TickSteps : mpc = "run" /\ Tick(d)

SpecSession == InitStart /\ [][NextSession]_vars

-----------------------------------------------------------------------------
(* Vocabulary of the properties *)

Min(S) == CHOOSE x \in S : \A y \in S : x <= y
Max(S) == CHOOSE x \in S : \A y \in S : x >= y

\* the handler of key-down i has run to its end
Handled(i) == i < Len(typed) \/ pc["key"] = "idle"

\* a key that is neither a lowercase letter nor a candidate-selection key
Flushing(character) == ~IsLowerAlpha(character) /\ ~SelectionKey(character)

\* the text of every event handed to the consumer, in emission order
DeliveredText == Concat([j \in 1..Len(delivered) |-> delivered[j].character])

\* the flushed literal buffers among the delivered events
IsLiteralFlush(event) == event.keycode = -1 /\ ~event.is_ime_input

\* what a text leaves in a buffer when each backspace removes the character
\* before it and an empty buffer stays empty
RECURSIVE Erase(_)
Erase(text) ==
    IF text = <<>> THEN <<>>
    ELSE LET before == Erase(SubSeq(text, 1, Len(text) - 1))
             last == text[Len(text)]
         IN  IF last = BS
             THEN IF before = <<>> THEN <<>> ELSE SubSeq(before, 1, Len(before) - 1)
             ELSE Append(before, last)

\* the log offsets an arrival read, and the composed characters among them
LogOffsets(a) == {-i : i \in (a.start + 1)..a.end}
ComposedText(a) ==
    SelectSeq([i \in 1..(a.end - a.start) |-> Ch(log[a.start + i], -(a.start + i))],
              LAMBDA c : c.ch = ZH)

\* a composed text that arrived with letters buffered and no key-down
\* between the poll that found it and its delivery
BufferedArrival(a) == a.quiet /\ a.buffer # <<>> /\ a.text # <<>>

-----------------------------------------------------------------------------
(* Properties of the listener, checked under Spec *)

\* C1: for a sequence of mapped, non-Cmd key-downs with no composed text,
\* ending with a key that flushes the buffer, the texts delivered to the
\* consumer, concatenated in emission order, are the mapped characters of
\* every key of the sequence, spaces and digits 1-9 typed after lowercase
\* letters included; fed to one session, each backspace removes the previous
\* character and the buffer is floored at empty.  (Stated for the consumer
\* whose callback does not raise.)
C1_LiteralConcatenation ==
    ( /\ consumer = "OmniMeApp"
      /\ mtime = 0
      /\ typed # <<>>
      /\ pc["key"] = "idle"
      /\ \A i \in 1..Len(typed) : ~typed[i].dropped
      /\ Flushing(typed[Len(typed)].character) )
    => /\ Text(DeliveredText) = [i \in 1..Len(typed) |-> typed[i].character]
       /\ (\A i \in 1..Len(typed) : typed[i].app = typed[1].app)
          => /\ Len(sessions) = 1
             /\ Text(sessions[1].buffer) = Erase(Text(DeliveredText))

\* C2: when a composed text arrives with lowercase letters buffered and no
\* key-down in between, exactly one event carries the text to the consumer,
\* it is the composed text and it is marked is_ime_input, the buffer is empty
\* and the mode is off right after, and no event delivered then or later
\* carries any of the buffered letters.
C2_ComposedReplacesBuffer ==
    \A n \in 1..Len(arrivals) :
        LET a == arrivals[n]
            carriers == {j \in 1..Len(delivered) :
                            From(delivered[j].character) \cap LogOffsets(a) # {}}
        IN  BufferedArrival(a) =>
            /\ carriers = {a.event}
            /\ delivered[a.event].is_ime_input
            /\ SelectSeq(delivered[a.event].character,
                         LAMBDA c : c.ch \notin Whitespace) = ComposedText(a)
            /\ delivered[a.event].character[1].ch \notin Whitespace
            /\ delivered[a.event].character[Len(delivered[a.event].character)].ch
                   \notin Whitespace
            /\ \A j \in 1..Len(delivered) :
                   From(delivered[j].character) \cap From(a.buffer) = {}
            /\ ( /\ n = Len(arrivals)
                 /\ pc["rime"] = "rime_cb"
                 /\ pc["key"] = "idle"
                 /\ Len(typed) = a.keys )
               => pinyin_buffer = <<>> /\ ~pinyin_mode

\* C2, its case: letters were buffered when a composed text arrived, and
\* another event has been delivered since
C2_Witness ==
    \E n \in 1..Len(arrivals) :
        /\ BufferedArrival(arrivals[n])
        /\ Len(delivered) > arrivals[n].event

\* C3: when the buffer is non-empty and a key arrives that is neither a
\* lowercase letter nor a space nor a digit 1-9, the consumer receives one
\* literal event with the whole buffer and only afterwards the event of the
\* triggering character; the buffer is empty and the mode is off after the
\* step.  (No composed text arrives.)
C3_FlushBeforeTrigger ==
    \A i \in 1..Len(typed) :
        LET k == typed[i]
            flushes == {j \in 1..Len(delivered) :
                           /\ IsLiteralFlush(delivered[j])
                           /\ delivered[j].character = k.pending}
            triggers == {j \in 1..Len(delivered) :
                            delivered[j].character = <<Ch(k.character, i)>>}
        IN  ( /\ mtime = 0
              /\ ~k.dropped
              /\ Flushing(k.character)
              /\ k.pending # <<>>
              /\ Handled(i) )
            => /\ Cardinality(flushes) = 1
               /\ Cardinality(triggers) = 1
               /\ Max(flushes) < Min(triggers)
               /\ (i = Len(typed)) => (pinyin_buffer = <<>> /\ ~pinyin_mode)

\* C4: in every interleaving of the key-event callback and the log watcher,
\* a space or a digit 1-9 typed while lowercase letters are pending in the
\* buffer is never appended to the buffer and never appears in the text of
\* an event delivered to the consumer.
C4_SelectionKeysSilent ==
    \A i \in 1..Len(typed) :
        ( /\ ~typed[i].dropped
          /\ SelectionKey(typed[i].character)
          /\ typed[i].pending # <<>> )
        => /\ i \notin From(pinyin_buffer)
           /\ \A j \in 1..Len(delivered) : i \notin From(delivered[j].character)

\* C5: the app of a flushed literal buffer is the app resolved for the first
\* lowercase letter of the run, also when later letters of the run were
\* resolved to another app.
C5_FlushKeepsFirstApp ==
    \A j \in 1..Len(delivered) :
        (IsLiteralFlush(delivered[j]) /\ delivered[j].character # <<>>)
        => delivered[j].app = typed[Min(From(delivered[j].character))].app

\* C6: a composed text is attributed to the buffer's owning app when letters
\* are buffered, and to the current foreground app when none are; in
\* particular not to the app of an earlier run once the focus has moved.
\* (Stated for the consumer whose callback does not raise, and for a text
\* that arrives when the latest key-down went to the foreground app.)
C6_ComposedAttribution ==
    \A n \in 1..Len(arrivals) :
        LET a == arrivals[n]
        IN  ( /\ consumer = "OmniMeApp"
              /\ a.quiet
              /\ a.text # <<>>
              /\ (a.keys > 0) => /\ ~typed[a.keys].dropped
                                  /\ typed[a.keys].app = a.current_app )
            => delivered[a.event].app =
                   IF a.buffer # <<>> THEN a.buffer_app ELSE a.current_app

\* C7: the buffer, the mode flag and the owning app change as one atomic
\* unit: whenever both threads are at rest the mode is on exactly when the
\* buffer is non-empty, and the owning app is the app of the letter added
\* last.  (Stated for the consumer whose callback does not raise.)
C7_BufferModeAtomic ==
    (consumer = "OmniMeApp" /\ Quiescent)
    => /\ pinyin_mode <=> (pinyin_buffer # <<>>)
       /\ (pinyin_buffer # <<>>)
          => pinyin_buffer_app = typed[Max(From(pinyin_buffer))].app

-----------------------------------------------------------------------------
(* Properties of the tracker and of the shutdown, checked under SpecTracker *)

\* the sessions of `app` that have been completed
CompletedOf(app) ==
    {s \in 1..Len(sessions) :
        /\ sessions[s].app = app
        /\ \E i \in 1..Len(completed_sessions) : completed_sessions[i] = s}

\* C8: under any interleaving of record_input on the key thread and on the
\* watcher thread with flush_current_session on the main thread, a session
\* is completed at most once: it is at most once in the completed list and
\* counts once in its app's session_count.
C8_CompletedOnce ==
    /\ \A i, j \in 1..Len(completed_sessions) :
           (i # j) => (completed_sessions[i] # completed_sessions[j])
    /\ \A app \in Apps :
           app_stats[app].session_count = Cardinality(CompletedOf(app))

\* the characters the sink holds for session s
Persisted(s) ==
    UNION {From(db[r].content) : r \in {q \in 1..Len(db) : db[q].session_id = s}}

\* C9: after a clean shutdown no in-flight text is lost: once the engine is
\* stopped, every character of a session buffer is in the persistence sink,
\* no lowercase letter is left in the composition buffer, and no session is
\* open.
C9_ShutdownLosesNothing ==
    (mpc = "stopped" /\ Quiescent)
    => /\ current_session = 0
       /\ pinyin_buffer = <<>>
       /\ \A s \in 1..Len(sessions) : From(sessions[s].buffer) \subseteq Persisted(s)

\* C10: when record_input closes the open session because the event is for
\* another app or comes after the idle timeout, the text left in the
\* session's buffer is written to the persistence sink with its metadata.
C10_ClosePersistsBuffer ==
    \A n \in 1..Len(closes) :
        LET c == closes[n]
        IN  (c.by \in Threads /\ c.buffer # <<>> /\ NoCallback)
            => \E r \in 1..Len(db) :
                   /\ db[r].session_id = c.session
                   /\ db[r].app = sessions[c.session].app
                   /\ db[r].content = c.buffer

-----------------------------------------------------------------------------
(* Properties of the persistence of a session buffer *)

\* the writes attempted for the same session and the same content as
\* attempt i
SameWrite(i) ==
    {j \in 1..Len(attempts) :
        /\ attempts[j].session = attempts[i].session
        /\ attempts[j].content = attempts[i].content}

\* C11: a failed write to the persistence sink is retried a bounded number
\* of times before the buffer is dropped: once the callback that met the
\* failure has returned, the same content has been written again at least
\* once; the buffer is not dropped after a single failed attempt.
C11_FailedWriteRetried ==
    \A i \in 1..Len(attempts) :
        (~attempts[i].ok /\ NoCallback) => Cardinality(SameWrite(i)) >= 2

-----------------------------------------------------------------------------
(* Properties of the sessions of one tracker, one handler at a time *)

RECURSIVE Characters(_)
\* the number of characters of the texts a session received
Characters(received) ==
    IF received = <<>> THEN 0
    ELSE Len(Head(received).text) + Characters(Tail(received))

\* the closes made for the arrival of an event of another app
SwitchCloses ==
    {i \in 1..Len(closes) : closes[i].by \in Threads /\ closes[i].event.app # closes[i].app}

\* C12: an event for an app other than the open session's closes that
\* session and no other, and the total_chars added to the aggregate of its
\* app is the number of characters of the texts attributed to it, multi-
\* character texts included.
C12_SwitchAddsAttributedChars ==
    \A i \in SwitchCloses :
        /\ \A j \in 1..Len(closes) : closes[j].session = closes[i].session => j = i
        /\ \A j \in 1..Len(closes) : closes[j].event = closes[i].event => j = i
        /\ closes[i].total_chars = Characters(closes[i].received)

\* the events that reached the tracker, in order of arrival: with one
\* handler at a time, the texts of the sessions in order of creation
Arrived ==
    Concat([i \in 1..Len(sessions) |->
              [j \in 1..Len(sessions[i].received) |->
                  [app |-> sessions[i].app, text |-> sessions[i].received[j].text,
                   at |-> sessions[i].received[j].at]]])

\* n single-character events of `app` without a gap, then one more of
\* `app` after a gap longer than the idle timeout; every handler has
\* returned and no session was closed by a flush
BurstThenLate(app, n) ==
    /\ n >= 1
    /\ Len(Arrived) = n + 1
    /\ \A k \in 1..(n + 1) :
          /\ Arrived[k].app = app
          /\ Len(Arrived[k].text) = 1
          /\ ~IsBackspace(Arrived[k].text)
    /\ \A k \in 1..n : Arrived[k].at = Arrived[1].at
    /\ Arrived[n + 1].at - Arrived[n].at > session_timeout
    /\ AtRest
    /\ \A i \in 1..Len(closes) : closes[i].by # "main"

\* C13: after n single-character events of one app without a gap and one
\* more after a gap longer than the idle timeout, the app has exactly two
\* sessions: the first closed exactly once, with char count n and duration
\* last activity minus start, the second open with char count 1 and
\* another session id.
C13_TimeoutSplitsSessions ==
    \A app \in Apps, n \in 1..MaxSessionKeys :
        BurstThenLate(app, n) =>
            /\ {i \in 1..Len(sessions) : sessions[i].app = app} = {1, 2}
            /\ completed_sessions = <<1>>
            /\ Len(closes) = 1
            /\ closes[1].session = 1
            /\ sessions[1].char_count = n
            /\ app_stats[app] = [present |-> TRUE, total_chars |-> n, session_count |-> 1,
                                 total_time_seconds |-> sessions[1].last_activity
                                                        - sessions[1].start_time]
            /\ current_session = 2
            /\ sessions[2].char_count = 1
            /\ sessions[2].session_id # sessions[1].session_id

\* two events of one app, then a third after the timeout
C13_Witness == \E app \in Apps : BurstThenLate(app, 2)

\* thread t is about to append its event to a session that was open when
\* the event arrived (a session just created has received nothing yet)
Reusing(t) == cpc[t] = "append" /\ sessions[csess[t]].received # <<>>

\* the time since the last activity of session s
Elapsed(s) == now - sessions[s].last_activity

\* C14 as stated: an event is appended to the open session only if the
\* app matches and the time elapsed since the last activity is strictly
\* below the idle timeout.
C14_AppendStrictlyBelowTimeout ==
    \A t \in Threads :
        Reusing(t) => /\ sessions[csess[t]].app = cev[t].app
                      /\ Elapsed(csess[t]) < session_timeout

\* C14, amended: an event is appended to the open session only if the app
\* matches and the elapsed time is at most the idle timeout, and the open
\* session is closed for an event only if the app differs or the elapsed
\* time is above the idle timeout: at the timeout exactly the session is
\* kept.
C14_AppendUpToTimeout ==
    \A t \in Threads :
        /\ Reusing(t) => /\ sessions[csess[t]].app = cev[t].app
                         /\ Elapsed(csess[t]) <= session_timeout
        /\ cpc[t] = "complete" =>
              \/ sessions[current_session].app # cev[t].app
              \/ Elapsed(current_session) > session_timeout

\* an event is being appended to the open session at the timeout exactly
C14_Witness ==
    \E t \in Threads : Reusing(t) /\ Elapsed(csess[t]) = session_timeout

-----------------------------------------------------------------------------
(* Properties of the order of delivery *)

\* C15: under any interleaving of the key-event callback and the log
\* watcher, two events of the same app reach the consumer in the order of
\* their timestamps: none with a later timestamp is delivered before one
\* with an earlier timestamp.
C15_DeliveredInTimestampOrder ==
    \A i \in 1..Len(delivered), j \in 1..Len(delivered) :
        (i < j /\ delivered[i].app = delivered[j].app)
        => delivered[i].timestamp <= delivered[j].timestamp

-----------------------------------------------------------------------------
(* Properties of the start of the listener *)

\* the OS refused the event tap: _run_loop_thread returned with no tap
TapRefused == pc["key"] = "returned" /\ tap = "None"

\* C16: when the OS refuses to create the event tap, start() has reported
\* the failure to its caller as an error and is_running() is not True.
C16_RefusedTapReported ==
    TapRefused => (start_result = "error" /\ ~is_running)

-----------------------------------------------------------------------------
(* Properties of the key-event callback as seen by the OS *)

\* the positions of the key thread inside the try block of _event_callback
InsideTry == {"set_last_input_app", "add_to_pinyin_buffer", "flush", "english_cb",
              "set_pinyin_mode", "key_cb"}

\* the consumer raised for a key-down, at the flush of the buffered
\* letters or at the key's own event, and its handler has ended
RaisedAndHandled(i) ==
    /\ RecordInputRaises(consumer)
    /\ ~typed[i].dropped /\ ~typed[i].skipped
    /\ \E e \in 1..Len(delivered) :
          ~delivered[e].is_ime_input /\ ~is_app_ignored(delivered[e].app)
          /\ i \in From(delivered[e].character)
    /\ Handled(i)

\* C17: no exception raised while a key-down is handled leaves
\* _event_callback: the handler is inside its try block or has returned
\* the event to the OS, whatever the key and wherever the consumer raised.
C17_NoExceptionEscapes == pc["key"] \in InsideTry \cup RestPositions

\* the consumer raised at the flush of buffered letters and the handler of
\* that key-down has returned
C17_Witness ==
    \E i \in 1..Len(typed) :
        /\ RaisedAndHandled(i)
        /\ typed[i].pending # <<>>
        /\ i = Len(typed)
        /\ pc["key"] = "idle"

-----------------------------------------------------------------------------
(* Properties of literal capture without the composition log *)

\* the log has delivered no text: nothing was appended to it and the
\* watcher has called nothing
LogSilent == log = <<>> /\ arrivals = <<>>

\* key-down i put a lowercase letter in the buffer
Buffered(i) == ~typed[i].dropped /\ IsLowerAlpha(typed[i].character)

\* the key-downs after i that flush the buffer: they carry a character that
\* is neither a lowercase letter nor a selection key
FlushersAfter(i) ==
    {j \in (i + 1)..Len(typed) : ~typed[j].dropped /\ Flushing(typed[j].character)}

\* the delivered events that carry the character of key-down i
Carriers(i) == {e \in 1..Len(delivered) : i \in From(delivered[e].character)}

\* how many times the character of key-down i was delivered
Occurrences(i) ==
    Cardinality({p \in 1..Len(DeliveredText) : DeliveredText[p].from = i})

\* C18: while the log delivers no text, every lowercase letter put in the
\* buffer is delivered exactly once, inside a literal event, by the time
\* the next key-down that is neither a lowercase letter nor space nor a
\* digit 1-9 has been handled, and before that key's own event; the
\* delivered characters are in typed order, none is delivered twice, and
\* the listener keeps running.
C18_LiteralOnlyCapture ==
    LogSilent =>
        /\ \A i \in 1..Len(typed) :
              Buffered(i) =>
                /\ Occurrences(i) <= 1
                /\ \A e \in Carriers(i) :
                      /\ IsLiteralFlush(delivered[e])
                      /\ \A p \in 1..Len(delivered[e].character) :
                            delivered[e].character[p].from = i
                            => delivered[e].character[p].ch = typed[i].character
                /\ (FlushersAfter(i) # {} /\ Handled(Min(FlushersAfter(i))))
                   => /\ Occurrences(i) = 1
                      /\ \A e \in Carriers(i), f \in Carriers(Min(FlushersAfter(i))) :
                            e < f
        /\ \A p \in 1..Len(DeliveredText), q \in 1..Len(DeliveredText) :
              p < q => DeliveredText[p].from < DeliveredText[q].from
        /\ \A i \in 1..Len(typed) : Occurrences(i) <= 1
        /\ is_running
        /\ pc["key"] \in InsideTry \cup {"idle"}

\* two letters were buffered and the key after them flushed them, with no
\* text from the log
C18_Witness ==
    /\ LogSilent
    /\ Len(typed) = 3
    /\ Buffered(1) /\ Buffered(2)
    /\ FlushersAfter(2) = {3}
    /\ Handled(3)
    /\ Carriers(1) # {} /\ Carriers(1) = Carriers(2)

-----------------------------------------------------------------------------
(* Properties of flush_current_session *)

\* the step that calls flush_current_session
FlushCalled ==
    /\ mpc = "flush_check" \/ (mpc = "run" /\ MainFirst(consumer) = "flush_check")
    /\ mpc' # mpc

\* the step at which flush_current_session returns
FlushReturns ==
    \/ FlushCalled /\ mpc' = AfterFlush(consumer)
    \/ mpc = "flush_clear" /\ mpc' # mpc

\* C19: flush_current_session closes the open session however recent its
\* last activity, and leaves no session open; called with no session open,
\* a second call after a first included, it changes neither the list of
\* completed sessions nor any aggregate.
C19_FlushClosesAndIsIdempotent ==
    [][ /\ (FlushCalled /\ current_session # 0) => mpc' = "flush_complete"
        /\ (mpc = "flush_complete" /\ mpc' # mpc) =>
              /\ completed_sessions' = Append(completed_sessions, current_session)
              /\ app_stats'[sessions[current_session].app].session_count
                 = app_stats[sessions[current_session].app].session_count + 1
        /\ FlushReturns => current_session' = 0
        /\ (FlushCalled /\ current_session = 0) =>
              /\ FlushReturns
              /\ UNCHANGED <<completed_sessions, app_stats, sessions, closes>>
      ]_vars

\* a flush closed a session at the clock value of its last activity; the
\* listener was started again, without a tap this time, and the stop that
\* followed has flushed with no session open
C19_Witness ==
    /\ mpc = "stopped"
    /\ pc["key"] = "returned"
    /\ current_session = 0
    /\ \E i \in 1..Len(closes) :
          /\ closes[i].by = "main"
          /\ sessions[closes[i].session].last_activity = now

-----------------------------------------------------------------------------
(* Properties of the open session under concurrent record_input calls *)

\* the sessions that are open: created and not completed
OpenSessions ==
    {s \in 1..Len(sessions) : \A i \in 1..Len(completed_sessions) : completed_sessions[i] # s}

\* C20: at every instant at most one session is open: every session
\* created is the tracker's current session or has been completed, however
\* the record_input calls of the key thread and of the watcher thread
\* interleave.
C20_AtMostOneOpen ==
    /\ Cardinality(OpenSessions) <= 1
    /\ \A s \in OpenSessions : s = current_session

-----------------------------------------------------------------------------
(* Properties of the delivery of composed text *)

\* the delivered events that carry a character of the log range of arrival a
LogCarriers(a) ==
    {j \in 1..Len(delivered) : From(delivered[j].character) \cap LogOffsets(a) # {}}

\* C21: every composed text that arrives is delivered to the consumer in
\* exactly one event, which carries that text and is marked is_ime_input,
\* whether or not letters were buffered when it arrived.
C21_ComposedTextDeliveredOnce ==
    \A n \in 1..Len(arrivals) :
        LET a == arrivals[n]
        IN  ComposedText(a) # <<>> =>
            /\ a.event \in 1..Len(delivered)
            /\ LogCarriers(a) = {a.event}
            /\ delivered[a.event].is_ime_input
            /\ delivered[a.event].keycode = -1
            /\ SelectSeq(delivered[a.event].character,
                         LAMBDA c : c.ch \notin Whitespace) = ComposedText(a)
            /\ delivered[a.event].character = strip(delivered[a.event].character)

\* a composed text arrived while the buffer was empty and was delivered
C21_Witness ==
    \E n \in 1..Len(arrivals) :
        /\ ComposedText(arrivals[n]) # <<>>
        /\ arrivals[n].buffer = <<>>
        /\ arrivals[n].event \in 1..Len(delivered)
        /\ cpc["rime"] = "none"

-----------------------------------------------------------------------------
(* Properties of the work done on the keyboard-dispatch thread *)

\* a step of the key thread, inside _event_callback, that calls
\* db.save_input_record
KeyThreadWrites ==
    /\ cpc["key"] = "save"
    /\ cpc'["key"] # "save"
    /\ Len(attempts') > Len(attempts)

\* C22: no write to the database is executed on the keyboard-dispatch
\* thread between the entry of _event_callback and its return.
C22_NoWriteOnKeyThread == [][~KeyThreadWrites]_vars

-----------------------------------------------------------------------------
(* Properties of the stop of the listener *)

\* key-downs whose application the handler resolved
Resolved == {i \in 1..Len(typed) : ~typed[i].dropped}

\* the target-process hint of key-down i is present and its lookup succeeds
HintSucceeds(i) == typed[i].pid > 0 /\ typed[i].pid \in DOMAIN PidApp

\* C25: the application of a key event is the application of the event's
\* target process when the event carries one and the lookup succeeds;
\* otherwise it is the value of the foreground-app cache that the activation
\* notifications maintain, as it stood when the key-down was handled.
C25_AppFromHintOrCache ==
    \A i \in Resolved :
        typed[i].app = IF HintSucceeds(i) THEN PidApp[typed[i].pid] ELSE typed[i].cache

\* the consumers the claim names: on_key of cmd_monitor and
\* OmniMeMenuBarApp._on_key_event
ShippedConsumers == {"cmd_monitor", "OmniMeMenuBarApp"}

\* no callback of the consumer is running
NoCallbackRunning == \A t \in Threads : cpc[t] = "none"

\* event e reached record_input and was appended to a session
Appended(e) ==
    \E s \in 1..Len(sessions) : \E k \in 1..Len(sessions[s].received) :
        sessions[s].received[k].text = delivered[e].character

\* C26: every event for an application that is not ignored, once
\* cmd_monitor's on_key or OmniMeMenuBarApp._on_key_event has handled it,
\* was appended to a session by record_input.
C26_ShippedConsumersRecord ==
    (consumer \in ShippedConsumers /\ NoCallbackRunning) =>
        \A e \in 1..Len(delivered) :
            (~IsSpecial(delivered[e]) /\ ~is_app_ignored(delivered[e].app)) => Appended(e)

\* C23: when the watcher waits for its next poll tick with bytes of the log
\* it has not read, also after a read that failed, that tick sees the
\* modification and reads them: no further modification is needed.
C23_UnreadBytesReadOnNextTick ==
    (running /\ pc["rime"] = "idle" /\ last_position < Len(log)) => mtime > last_mtime

\* the offsets in the log of the characters of a text, in the text's order
Offsets(text) == [i \in 1..Len(text) |-> -text[i].from]

Increasing(seq) == \A i, j \in 1..Len(seq) : i < j => seq[i] < seq[j]

AppendsBackspace(t) ==
    cpc[t] = "append" /\ cpc'[t] # "append" /\ IsBackspace(cev[t].character)

\* C28: InputSession.append of a backspace removes exactly the last
\* character of a buffer that is not empty and leaves an empty buffer empty;
\* char_count is as before and last_activity is the time of the call.
C28_BackspaceRemovesLast ==
    [][\A t \in Threads : AppendsBackspace(t) =>
          LET before == sessions[csess[t]]
              after == sessions'[csess[t]]
          IN  /\ Len(after.buffer) = Max({Len(before.buffer) - 1, 0})
              /\ after.buffer = SubSeq(before.buffer, 1, Len(after.buffer))
              /\ after.char_count = before.char_count
              /\ after.last_activity = now]_vars

\* a backspace was appended after a character, at a later time
C28_Witness ==
    \E s \in 1..Len(sessions) : \E k \in 2..Len(sessions[s].received) :
        LET r == sessions[s].received
        IN  /\ IsBackspace(r[k].text) /\ ~IsBackspace(r[k - 1].text)
            /\ r[k].at > r[k - 1].at
            /\ sessions[s].buffer = <<>> /\ sessions[s].char_count = 1
            /\ sessions[s].last_activity = r[k].at

\* this step begins the handling of a key-down of a pure modifier key, with
\* Cmd held, or of a key code without a character
DropsKey ==
    /\ Len(typed') > Len(typed)
    /\ LET input == typed'[Len(typed')].input
       IN  \/ input.keycode \in IGNORED_KEYCODES
           \/ input.cmd
           \/ input.keycode \notin DOMAIN SPECIAL_KEYCODE_MAP \cup DOMAIN KEYCODE_TO_CHAR

\* C29: a key-down that is dropped (modifier key, Cmd held, key code with
\* no mapping) delivers no event and leaves the pending buffer, the mode
\* flag, the buffer's application and the last-input application as they
\* were.
C29_DroppedKeyChangesNothing ==
    [][DropsKey => /\ delivered' = delivered
                   /\ UNCHANGED <<pinyin_buffer, pinyin_mode, pinyin_buffer_app,
                                  last_input_app>>
                   /\ pc' = pc]_vars

\* a key with Cmd held was dropped while letters were pending
C29_Witness ==
    \E i \in 1..Len(typed) :
        /\ typed[i].input.cmd /\ typed[i].character = "a"
        /\ typed[i].pending # <<>> /\ typed[i].mode
        /\ pinyin_buffer = typed[i].pending /\ pinyin_mode
        /\ delivered = <<>>

\* thread t takes a step of the consumer's callback for an event of an
\* ignored application
RecordsIgnored(t) ==
    cpc[t] # "none" /\ cpc'[t] # cpc[t] /\ cev[t].app \in ignored_apps

\* C30: record_input for an application of the ignored list returns no
\* session and leaves the tracker as it was: the open session is neither
\* closed nor changed, no session is created, no aggregate changes; this
\* holds for each call.
C30_IgnoredAppLeavesTracker ==
    [][\A t \in Threads : RecordsIgnored(t) =>
          /\ UNCHANGED <<sessions, current_session, completed_sessions, app_stats>>
          /\ closes' = closes
          /\ csess[t] = 0 /\ csess'[t] = 0
          /\ cpc'[t] = "none"]_vars

\* an event of the login window was handled while a session was open
C30_Witness ==
    /\ NoCallbackRunning
    /\ Len(delivered) >= 2
    /\ delivered[Len(delivered)].app \in ignored_apps
    /\ current_session # 0
    /\ sessions[current_session].buffer # <<>>

\* C31: the map of the aggregates changes only in a step that closes a
\* session: record_input on the open session and get_app_stats leave the
\* set of its entries and the three totals of every entry as they were.
C31_AggregatesChangeOnlyOnClose ==
    [][app_stats' # app_stats => Len(closes') > Len(closes)]_vars

\* thread t ends, in this step, a callback that saved the buffer at the size
\* threshold
EndsThresholdSave(t) ==
    /\ cpc[t] = "clear" /\ cpc'[t] = "none"
    /\ attempts # <<>>
    /\ attempts[Len(attempts)].ok /\ attempts[Len(attempts)].session = csess[t]

\* C32: when the buffer of the open session reaches the size threshold the
\* session is closed: once the callback that saved the buffer has ended, the
\* session is among the completed sessions, counted once in its app's
\* aggregate, and it is no longer the open session, so that the next event
\* of the app gets a new session.
C32_ThresholdClosesSession ==
    [][\A t \in Threads : EndsThresholdSave(t) =>
          /\ Cardinality({i \in 1..Len(completed_sessions') :
                             completed_sessions'[i] = csess[t]}) = 1
          /\ current_session' # csess[t]]_vars

\* C33: a log entry without the timestamp marker is skipped: nothing of it
\* is delivered to the consumer as composed text.
C33_MalformedEntrySkipped ==
    \A e \in 1..Len(delivered) :
        delivered[e].is_ime_input =>
            \A i \in 1..Len(delivered[e].character) : delivered[e].character[i].ch # RAW

\* thread t, in this step, reads the log, writes to the database or runs a
\* statement of the consumer's callback
DoesIO(t) ==
    \/ cpc[t] # "none" /\ cpc'[t] # cpc[t]
    \/ t = "rime" /\ pc[t] = "read" /\ pc'[t] # "read"
    \/ cpc[t] = "save" /\ Len(attempts') > Len(attempts)

\* C34: no thread owns one of the four locks in a step that reads the log,
\* writes to the database or runs the consumer's callback, and no thread
\* ever owns two of the locks.
C34_NoLockAcrossIO ==
    /\ [](\A t \in Threads \cup {"app_watcher"} : Cardinality(HeldBy(t)) <= 1)
    /\ [][\A t \in Threads : DoesIO(t) => HeldBy(t) = {}]_vars

\* the watcher thread is in the consumer's callback, past a write to the
\* database, while the key thread owns a lock
C34_Witness ==
    /\ cpc["rime"] = "clear"
    /\ attempts # <<>>
    /\ HeldBy("key") # {}

\* thread t runs session.append in this step
Appends(t) == cpc[t] = "append" /\ cpc'[t] # "append"

\* C35: nothing is appended to a session after it was completed, and every
\* text appended to a session comes from an event of the session's
\* application, however record_input on the key thread and on the watcher
\* thread and flush_current_session on the main thread interleave.
C35_NoAppendAfterCompletion ==
    /\ [](\A j \in 1..Len(closes) :
            sessions[closes[j].session].received = closes[j].received)
    /\ [][\A t \in Threads : Appends(t) => sessions[csess[t]].app = cev[t].app]_vars

\* the last key-down was a key that flushes, and its handler has ended
FlushingKeyHandled ==
    /\ typed # <<>>
    /\ ~typed[Len(typed)].dropped
    /\ Flushing(typed[Len(typed)].character)
    /\ pc["key"] = "idle"

\* C36: after _event_callback has handled a key that is neither a lowercase
\* letter nor a selection key, the mode is off, the buffer is empty and the
\* event of the key itself was handed to the consumer, also when the
\* consumer raised on the event that carries the flushed letters.
C36_FlushingKeyEndsIdle ==
    FlushingKeyHandled =>
        /\ ~pinyin_mode
        /\ pinyin_buffer = <<>>
        /\ \E e \in 1..Len(delivered) :
              delivered[e].character
                  = <<Ch(typed[Len(typed)].character, Len(typed))>>

\* C37: whenever the arrival of a composed text discards a buffer that is
\* not empty, an event with is_ime_input is delivered to the consumer in
\* its place, also when the content read from the log is only whitespace
\* or only timestamp markers.
C37_DiscardedBufferReplaced ==
    \A n \in 1..Len(arrivals) :
        arrivals[n].buffer # <<>> =>
            /\ arrivals[n].event \in 1..Len(delivered)
            /\ delivered[arrivals[n].event].is_ime_input

\* the contents of the records written for session s, in the order written
PersistedText(s) ==
    LET records == SelectSeq(db, LAMBDA r : r.session_id = s)
    IN  Concat([k \in 1..Len(records) |-> records[k].content])

\* the text attributed to session s: what was appended to it, in order
Attributed(s) ==
    LET texts == SelectSeq(sessions[s].received, LAMBDA r : ~IsBackspace(r.text))
    IN  Concat([k \in 1..Len(texts) |-> texts[k].text])

\* C38: no character of a session's text is written to the database more
\* than once: the records of one session id, put together, hold no
\* character twice and are a prefix of the text attributed to the session.
C38_PersistedOnce ==
    \A s \in 1..Len(sessions) :
        LET text == PersistedText(s)
        IN  /\ Cardinality({text[i] : i \in 1..Len(text)}) = Len(text)
            /\ Len(text) <= Len(Attributed(s))
            /\ text = SubSeq(Attributed(s), 1, Len(text))

\* stop() has returned: a listener was started and `_running` is False again
StopReturned == ~running /\ mpc # "created"

\* every thread the listener started has ended
AllLoopsEnded ==
    /\ \A t \in Threads : pc[t] \in {"unstarted", "returned"}
    /\ app_watcher # "running"

\* C24: after stop(), the run loop of the event tap, the loop of the log
\* watcher and the loop of the app watcher all end, and no event is
\* delivered to the consumer once stop() has returned.
C24_StopEndsEveryLoop ==
    /\ [][StopReturned => delivered' = delivered]_vars
    /\ <>[]StopReturned => <>[]AllLoopsEnded

====
